---- MODULE Spec2Model ----
(***************************************************************************)
(* Model of src/src/openparse/tables/unitable/core.py: the greedy          *)
(* autoregressive decoding driver, the three predictors built on it, the   *)
(* bounding-box rescaler, the numeric-artifact fix of cell texts, and the  *)
(* img_to_html pipeline.                                                   *)
(***************************************************************************)
EXTENDS Integers, Sequences, FiniteSets, TLC

VARIABLES
    models,          \* model name -> [training, weights]: the module-level models
    model,           \* _autoregressive_decode: the model argument (a model name)
    image,           \* _autoregressive_decode: the image batch, one entry per row
    prefix,          \* _autoregressive_decode: the prefix argument
    max_decode_len,  \* _autoregressive_decode: the max_decode_len argument
    eos_id,          \* _autoregressive_decode: the eos_id argument
    token_whitelist, \* _autoregressive_decode: the token_whitelist argument
    token_blacklist, \* _autoregressive_decode: the token_blacklist argument
    context,         \* _autoregressive_decode: the context tensor, a sequence of rows
    step,            \* _autoregressive_decode: iterations of the for loop completed
    dpc,             \* _autoregressive_decode: "idle", "call", "loop", "returned"
    img,             \* the PIL image given to img_to_html or predict_cells
    pc,              \* img_to_html: the line it is at, "returned" or "raised"
    error,           \* the exception a call ended with, or "none"
    image_tensor,    \* img_to_html: image_tensor
    pred_html,       \* img_to_html: pred_html
    ncalls,          \* the number of img_to_html calls made so far
    runs,            \* what each finished img_to_html call did, in call order
    cpc,             \* predict_cells: "idle", "call", "decode", "returned", "raised"
    pred_bbox,       \* predict_cells: the pred_bbox argument
    pred_cell,       \* predict_cells: the returned list
    bbox,            \* _rescale_bbox: the list of boxes in the model's 448x448 space
    tgt,             \* _rescale_bbox: the size (W, H) of the original image
    scaled_bbox,     \* _rescale_bbox(bbox, src=(448, 448), tgt=tgt)
    restored_bbox,   \* _rescale_bbox(scaled_bbox, src=tgt, tgt=(448, 448))
    rpc,             \* the rescaling round trip: "idle", "input", "scaled", "restored"
    text,            \* a decoded cell text, a sequence of characters
    fixed,           \* the text after one re.sub of predict_cells
    refixed,         \* the text after the same re.sub applied to fixed
    fpc              \* the fix: "idle", "input", "fixed", "refixed"

dvars == <<models, model, image, prefix, max_decode_len, eos_id,
           token_whitelist, token_blacklist, context, step, dpc>>
pvars == <<img, pc, error, image_tensor, pred_html, ncalls, runs>>
cvars == <<cpc, pred_bbox, pred_cell>>
rvars == <<bbox, tgt, scaled_bbox, restored_bbox, rpc>>
fvars == <<text, fixed, refixed, fpc>>
vars == <<dvars, pvars, cvars, rvars, fvars>>

----------------------------------------------------------------------------
(* Bounds of the model. *)

\* the largest max_decode_len a decode call is run with
MaxDecodeLen == 3
\* the batch sizes (image.shape[0]) a decode call is run with
Batches == {1, 2}

\* the vocabulary ids: 0 is the task marker ("[html]", "[bbox]", "[cell]"),
\* 1 is "<eos>", 2 is an ordinary token
Vocab == {0, 1, 2}
\* the logit values a model can produce for a token
LogitVals == {0, 1}
\* a masked logit (-inf), below every value of LogitVals
NegInf == 0 - 1
\* the prefixes decode calls are run with
Prefixes == {<<0>>, <<1>>, <<2, 0>>}

----------------------------------------------------------------------------
(* Optional[list[int]] arguments. *)

None == [given |-> FALSE, ids |-> {}]
Some(S) == [given |-> TRUE, ids |-> S]

\* Optional token lists a decode call is run with: neither list, a non-empty
\* allow-list, or a deny-list that leaves at least one token
ListArgs ==
    {<<None, None>>}
    \cup {<<Some(W), None>> : W \in (SUBSET Vocab) \ {{}}}
    \cup {<<None, Some(B)>> : B \in (SUBSET Vocab) \ {Vocab}}

----------------------------------------------------------------------------
(* The encoder-decoder and the helpers of utils. *)

\* a model whose weights are not fixed: any logits at any step
AnyModel == 0 - 1
\* the pretrained weights the module-level models can hold
Weights == {0, 1, 2}

RECURSIVE SumSeq(_)
SumSeq(s) == IF s = <<>> THEN 0 ELSE Head(s) + SumSeq(Tail(s))

\* model.generator(model.decode(memory, context))[:, -1, :] of one row in
\* eval mode: a fixed function of the weights, the row's image and its context
\* (here: one token gets the high logit)
Forward(w, x, row) ==
    [t \in Vocab |-> IF t = (w * Len(row) + x + SumSeq(row)) % 3 THEN 1 ELSE 0]

\* the logits one row can get from model m: in training mode dropout makes them
\* random, in eval mode they are Forward's
RowLogits(m, x, row) ==
    IF m.weights = AnyModel \/ m.training
    THEN [Vocab -> LogitVals]
    ELSE {Forward(m.weights, x, row)}

\* pred_token_within_range: logits outside the allow-list, or inside the
\* deny-list, are suppressed
pred_token_within_range(logits, white_list, black_list) ==
    [t \in Vocab |->
        IF white_list.given /\ t \notin white_list.ids THEN NegInf
        ELSE IF black_list.given /\ t \in black_list.ids THEN NegInf
        ELSE logits[t]]

\* greedy_sampling: the token of the highest logit (the first one of a tie)
greedy_sampling(logits) ==
    CHOOSE t \in Vocab :
        \A u \in Vocab : logits[u] < logits[t] \/ (logits[u] = logits[t] /\ t <= u)

----------------------------------------------------------------------------
(* _autoregressive_decode *)

Rows == 1..Len(context)

Contains(row, tok) == \E i \in 1..Len(row) : row[i] = tok

\* eos_flag = [eos_id in k for k in context]; all(eos_flag)
AllEosFlag(ctx) == \A r \in 1..Len(ctx) : Contains(ctx[r], eos_id)
\* any(eos_flag), which the loop does not use
AnyEosFlag(ctx) == \E r \in 1..Len(ctx) : Contains(ctx[r], eos_id)

\* the for loop runs its body: the range is not exhausted and no break
NoStepLimit == ~AllEosFlag(context)
BreakOnAnyEos == step < max_decode_len /\ ~AnyEosFlag(context)
LoopContinues == step < max_decode_len /\ ~AllEosFlag(context)

\* model.eval()
EvalModeSkipped(m) == m
EvalMode(m) == [m EXCEPT !.training = FALSE]

\* pred_token_within_range(logits.detach(), white_list=token_whitelist,
\*                         black_list=token_blacklist)
MaskSkipped(logits) == pred_token_within_range(logits, None, None)
MaskLogits(logits) == pred_token_within_range(logits, token_whitelist, token_blacklist)

\* context = torch.cat([context, next_tokens], dim=1)
CatUnfinishedRows(ctx, next_tokens) ==
    [r \in 1..Len(ctx) |->
        IF Contains(ctx[r], eos_id) THEN ctx[r] ELSE Append(ctx[r], next_tokens[r])]
CatTokens(ctx, next_tokens) ==
    [r \in 1..Len(ctx) |-> Append(ctx[r], next_tokens[r])]

\* lines 83-88: model.eval(), the encoder memory, context = prefix repeated per row
DecodeEnter ==
    /\ dpc = "call"
    /\ models' = [models EXCEPT ![model] = EvalMode(@)]
    /\ context' = [r \in 1..Len(image) |-> prefix]
    /\ step' = 0
    /\ dpc' = "loop"
    /\ UNCHANGED <<model, image, prefix, max_decode_len, eos_id,
                   token_whitelist, token_blacklist>>
    /\ UNCHANGED <<pvars, cvars, rvars, fvars>>

\* lines 90-109: one iteration of the loop that does not break
DecodeStep ==
    /\ dpc = "loop"
    /\ LoopContinues
    /\ \E logits \in [Rows -> [Vocab -> LogitVals]] :
        /\ \A r \in Rows : logits[r] \in RowLogits(models[model], image[r], context[r])
        /\ LET next_tokens == [r \in Rows |-> greedy_sampling(MaskLogits(logits[r]))]
           IN context' = CatTokens(context, next_tokens)
    /\ step' = step + 1
    /\ UNCHANGED <<models, model, image, prefix, max_decode_len, eos_id,
                   token_whitelist, token_blacklist, dpc>>
    /\ UNCHANGED <<pvars, cvars, rvars, fvars>>

\* lines 90-93, 110: the range is exhausted or the loop breaks; return context
DecodeReturn ==
    /\ dpc = "loop"
    /\ ~LoopContinues
    /\ dpc' = "returned"
    /\ UNCHANGED <<models, model, image, prefix, max_decode_len, eos_id,
                   token_whitelist, token_blacklist, context, step>>
    /\ UNCHANGED <<pvars, cvars, rvars, fvars>>

----------------------------------------------------------------------------
(* Calls of _autoregressive_decode with any model and any arguments. *)

\* no image is loaded
NoImage == [pixels |-> 0, size |-> <<1, 1>>]

\* _autoregressive_decode is not running
IdleDecode ==
    /\ model = "structure_model"
    /\ image = <<>>
    /\ prefix = <<>>
    /\ max_decode_len = 0
    /\ eos_id = 0
    /\ token_whitelist = None
    /\ token_blacklist = None
    /\ context = <<>>
    /\ step = 0
    /\ dpc = "idle"

\* img_to_html is not running
IdlePipeline ==
    /\ pc = "idle"
    /\ error = "none"
    /\ image_tensor = <<>>
    /\ pred_html = <<>>
    /\ ncalls = 0
    /\ runs = <<>>

\* predict_cells is not running
IdleCells ==
    /\ cpc = "idle"
    /\ pred_bbox = <<>>
    /\ pred_cell = <<>>

\* no rescaling round trip is running
IdleRescale ==
    /\ bbox = <<>>
    /\ tgt = <<1, 1>>
    /\ scaled_bbox = <<>>
    /\ restored_bbox = <<>>
    /\ rpc = "idle"

\* no cell text is being fixed
IdleFix ==
    /\ text = <<>>
    /\ fixed = <<>>
    /\ refixed = <<>>
    /\ fpc = "idle"

InitDecode ==
    /\ models = [m \in {"model"} |-> [training |-> TRUE, weights |-> AnyModel]]
    /\ model = "model"
    /\ image \in {[r \in 1..b |-> 0] : b \in Batches}
    /\ prefix \in Prefixes
    /\ max_decode_len \in 0..MaxDecodeLen
    /\ eos_id \in Vocab
    /\ \E la \in ListArgs : token_whitelist = la[1] /\ token_blacklist = la[2]
    /\ context = <<>>
    /\ step = 0
    /\ dpc = "call"
    /\ img = NoImage
    /\ IdlePipeline
    /\ IdleCells
    /\ IdleRescale
    /\ IdleFix

NextDecode == DecodeEnter \/ DecodeStep \/ DecodeReturn

SpecDecode == InitDecode /\ [][NextDecode]_vars

\* the calls are synchronous: a call that can take a step takes it
SpecDecodeFair == SpecDecode /\ WF_vars(NextDecode)

----------------------------------------------------------------------------
(* Properties of _autoregressive_decode. *)

Entered == dpc \in {"loop", "returned"}

\* the tokens the loop has appended to row r
Appended(r) == {context[r][i] : i \in (Len(prefix) + 1)..Len(context[r])}

\* C2: every row of the context, and so of the returned tensor, has length at
\* most len(prefix) + max_decode_len: the loop appends at most max_decode_len
\* tokens to a row
C2_LengthBound ==
    Entered => \A r \in Rows : Len(context[r]) <= Len(prefix) + max_decode_len

\* C2 witness: a call with max_decode_len > 0 returned rows of exactly the
\* largest length allowed
C2_Witness ==
    /\ dpc = "returned"
    /\ max_decode_len = MaxDecodeLen
    /\ \E r \in Rows : Len(context[r]) = Len(prefix) + max_decode_len

C7_Termination ==
    /\ <>(dpc = "returned")
    /\ [](dpc = "returned" => (AllEosFlag(context) \/ step = max_decode_len))
    /\ [][(dpc = "loop" /\ step < max_decode_len /\ ~AllEosFlag(context))
            => (dpc' = "loop" /\ step' = step + 1)]_vars
    /\ [][(dpc = "loop" /\ AllEosFlag(context))
            => (dpc' = "returned" /\ context' = context)]_vars
    /\ []((Entered /\ Contains(prefix, eos_id))
            => (step = 0 /\ \A r \in Rows : context[r] = prefix))

\* C7 witness: a call on two rows stopped early, after at least one step and
\* before max_decode_len steps, with eos_id in every row
C7_Witness ==
    /\ dpc = "returned"
    /\ Len(context) >= 2
    /\ 0 < step
    /\ step < max_decode_len
    /\ AllEosFlag(context)

\* C8: after k steps every row has length len(prefix) + k and still starts
\* with the prefix, and a step appends exactly one token to every row, rows
\* that already contain eos_id included, changing no earlier token
C8_AppendEveryRow ==
    /\ [](Entered =>
            \A r \in Rows :
                /\ Len(context[r]) = Len(prefix) + step
                /\ SubSeq(context[r], 1, Len(prefix)) = prefix)
    /\ [][(dpc = "loop" /\ step' # step) =>
            /\ step' = step + 1
            /\ Len(context') = Len(context)
            /\ \A r \in Rows :
                /\ Len(context'[r]) = Len(context[r]) + 1
                /\ SubSeq(context'[r], 1, Len(context[r])) = context[r]]_vars

\* C8 witness: in a batch of two rows, a row holds a token after the first
\* eos_id it was given by the loop
C8_Witness ==
    /\ Len(context) >= 2
    /\ \E r \in Rows :
        \E i \in (Len(prefix) + 1)..(Len(context[r]) - 1) :
            /\ context[r][i] = eos_id
            /\ ~Contains(SubSeq(context[r], 1, i - 1), eos_id)

----------------------------------------------------------------------------
(* The numeric-artifact fix of predict_cells:                              *)
(*     re.sub(r"(\d).\s+(\d)", r"\1.\2", i)                                *)
(* A text is a sequence of one-character strings.                          *)

\* the longest cell text the fix is run on
MaxTextLen == 7

\* the characters the enumerated cell texts are made of
Chars == {"1", ".", " ", "a", "\n"}

\* texts quoted as examples, made of further characters
ExampleTexts ==
    { <<"1", "2", ".", " ", "5">>,
      <<"a", "b", "c">>,
      <<"1", "a", " ", "5">>,
      <<"1", ".", " ", "2", ".", " ", "3">> }

\* the cell texts the fix is run on
Texts ==
    UNION {[1..n -> Chars] : n \in 0..MaxTextLen} \cup ExampleTexts

\* the character classes \d and \s, and the class of the pattern's "."
Digits == {"0", "1", "2", "3", "4", "5", "6", "7", "8", "9"}
Whitespace == {" ", "\t", "\n", "\r", "\f"}
IsDigit(c) == c \in Digits
IsSpace(c) == c \in Whitespace
AnyChar(c) == c # "\n"

\* \s+ from position k on: the first position past the run of whitespace
RECURSIVE SkipSpaces(_, _)
SkipSpaces(s, k) ==
    IF k <= Len(s) /\ IsSpace(s[k]) THEN SkipSpaces(s, k + 1) ELSE k

\* the pattern (\d).\s+(\d) tried at position i: the position of the second
\* digit, or 0 when there is no match at i
MatchEnd(s, i) ==
    IF /\ i + 3 <= Len(s)
       /\ IsDigit(s[i])
       /\ AnyChar(s[i + 1])
       /\ IsSpace(s[i + 2])
    THEN LET j == SkipSpaces(s, i + 2)
         IN IF j <= Len(s) /\ IsDigit(s[j]) THEN j ELSE 0
    ELSE 0

\* the template \1.\2
DigitsJoined(d1, d2) == <<d1, d2>>
Template(d1, d2) == <<d1, ".", d2>>

\* re.sub from position i on: leftmost matches, not overlapping, each replaced
\* by the template; the search resumes past the match
RECURSIVE SubFrom(_, _)
SubFrom(s, i) ==
    IF i > Len(s) THEN <<>>
    ELSE LET j == MatchEnd(s, i)
         IN IF j > 0
            THEN Template(s[i], s[j]) \o SubFrom(s, j + 1)
            ELSE <<s[i]>> \o SubFrom(s, i + 1)

\* line 179: the substitution applied to one cell text
re_sub(s) == SubFrom(s, 1)

\* the positions at which re.sub, searching from i on, finds its matches
RECURSIVE MatchStarts(_, _)
MatchStarts(s, i) ==
    IF i > Len(s) THEN {}
    ELSE LET j == MatchEnd(s, i)
         IN IF j > 0 THEN {i} \cup MatchStarts(s, j + 1) ELSE MatchStarts(s, i + 1)

\* the fix is applied to a cell text
FixText ==
    /\ fpc = "input"
    /\ fixed' = re_sub(text)
    /\ fpc' = "fixed"
    /\ UNCHANGED <<text, refixed>>
    /\ UNCHANGED <<dvars, pvars, cvars, rvars>>

\* the fix is applied to its own output
FixAgain ==
    /\ fpc = "fixed"
    /\ refixed' = re_sub(fixed)
    /\ fpc' = "refixed"
    /\ UNCHANGED <<text, fixed>>
    /\ UNCHANGED <<dvars, pvars, cvars, rvars>>

InitFix ==
    /\ text \in Texts
    /\ fixed = <<>>
    /\ refixed = <<>>
    /\ fpc = "input"
    /\ models = [m \in {"model"} |-> [training |-> TRUE, weights |-> AnyModel]]
    /\ IdleDecode
    /\ img = NoImage
    /\ IdlePipeline
    /\ IdleCells
    /\ IdleRescale

NextFix == FixText \/ FixAgain

SpecFix == InitFix /\ [][NextFix]_vars

(* Properties of the fix. *)

Separators == {".", ","}

\* the text holds a digit, a separator, whitespace and a digit in a row
HasArtifact(s) ==
    \E i \in 1..Len(s) :
        /\ i + 3 <= Len(s)
        /\ IsDigit(s[i])
        /\ s[i + 1] \in Separators
        /\ IsSpace(s[i + 2])
        /\ LET j == SkipSpaces(s, i + 2) IN j <= Len(s) /\ IsDigit(s[j])

\* a match of the pass ends in a digit that starts another occurrence of the
\* pattern
Chained(s) ==
    \E i \in MatchStarts(s, 1) : MatchEnd(s, MatchEnd(s, i)) > 0

\* C6: the fix rewrites only the occurrences of a digit, a separator,
\* whitespace and a digit; a text without such an occurrence is left unchanged
C6_OnlyArtifactsRewritten ==
    (fpc # "input" /\ ~HasArtifact(text)) => fixed = text

\* C10 as stated: the fix applied to its own output changes nothing
C10_Idempotent ==
    fpc = "refixed" => refixed = fixed

\* C10 amended: the fix applied to its own output changes nothing when no
\* match of the first pass ends in a digit that starts another occurrence
C10_IdempotentUnlessChained ==
    (fpc = "refixed" /\ ~Chained(text)) => refixed = fixed

\* C10 witness: a text with one artifact, not chained to another, was repaired
\* by the first pass and passed through the fix again
C10_Witness ==
    /\ fpc = "refixed"
    /\ ~Chained(text)
    /\ Cardinality(MatchStarts(text, 1)) = 1
    /\ MatchStarts(fixed, 1) = {}
    /\ fixed # text

----------------------------------------------------------------------------
(* _rescale_bbox, and the round trip (448, 448) -> (W, H) -> (448, 448). *)

\* the side of the model's coordinate space
SrcSize == 448

\* the largest of the consecutive target widths tried
MaxWidth == 32

\* the target sizes (W, H) of the round trip
Widths == 1..MaxWidth \cup {448, 449, 1000}
Heights == {1, 32, 600}

\* the boxes of the round trip: every x in [0, 448], two y
Boxes ==
    {<<x, y, SrcSize - x, SrcSize - y>> : x \in 0..SrcSize, y \in {7, 224}}

\* the box with its corners exchanged
Mirror(b) == <<b[3], b[4], b[1], b[2]>>

\* the lists of boxes of the round trip: of length 0, 1 and 2
BoxLists ==
    {<<>>} \cup {<<b>> : b \in Boxes} \cup {<<b, Mirror(b)>> : b \in Boxes}

\* round(x * ratio), with ratio = tgt / src a float and n = x * tgt, d = src:
\* the integer nearest to n / d; when n / d lies exactly between two integers
\* the floating-point product falls on either side of the half, so round()
\* gives either of the two
Truncated(n, d) == {n \div d}
RoundResults(n, d) ==
    LET q == n \div d
        r == n % d
    IN IF 2 * r < d THEN {q}
       ELSE IF 2 * r > d THEN {q + 1}
       ELSE {q, q + 1}

\* lines 62-68: the scaled boxes one box can give
ScaledBoxes(box, src, tg) ==
    {<<x_min, y_min, x_max, y_max>> :
        x_min \in RoundResults(box[1] * tg[1], src[1]),
        y_min \in RoundResults(box[2] * tg[2], src[2]),
        x_max \in RoundResults(box[3] * tg[1], src[1]),
        y_max \in RoundResults(box[4] * tg[2], src[2])}

\* lines 53-71: the lists _rescale_bbox(boxes, src, tg) can return
RECURSIVE rescale_bbox(_, _, _)
rescale_bbox(boxes, src, tg) ==
    IF boxes = <<>> THEN {<<>>}
    ELSE {<<b>> \o rest :
            b \in ScaledBoxes(Head(boxes), src, tg),
            rest \in rescale_bbox(Tail(boxes), src, tg)}

\* _rescale_bbox(bbox, src=(448, 448), tgt=tgt), as predict_bboxes calls it
Rescale ==
    /\ rpc = "input"
    /\ scaled_bbox' \in rescale_bbox(bbox, <<SrcSize, SrcSize>>, tgt)
    /\ rpc' = "scaled"
    /\ UNCHANGED <<bbox, tgt, restored_bbox>>
    /\ UNCHANGED <<dvars, pvars, cvars, fvars>>

\* _rescale_bbox(scaled_bbox, src=tgt, tgt=(448, 448))
RescaleBack ==
    /\ rpc = "scaled"
    /\ restored_bbox' \in rescale_bbox(scaled_bbox, tgt, <<SrcSize, SrcSize>>)
    /\ rpc' = "restored"
    /\ UNCHANGED <<bbox, tgt, scaled_bbox>>
    /\ UNCHANGED <<dvars, pvars, cvars, fvars>>

InitRescale ==
    /\ bbox \in BoxLists
    /\ tgt \in Widths \X Heights
    /\ scaled_bbox = <<>>
    /\ restored_bbox = <<>>
    /\ rpc = "input"
    /\ models = [m \in {"model"} |-> [training |-> TRUE, weights |-> AnyModel]]
    /\ IdleDecode
    /\ img = NoImage
    /\ IdlePipeline
    /\ IdleCells
    /\ IdleFix

NextRescale == Rescale \/ RescaleBack

SpecRescale == InitRescale /\ [][NextRescale]_vars

(* Properties of the round trip. *)

Abs(n) == IF n < 0 THEN 0 - n ELSE n

\* the axis (1: x, 2: y) of coordinate k of a box
Axis(k) == IF k \in {1, 3} THEN 1 ELSE 2

\* C5: the round trip keeps the length and the order of the list, and each
\* recovered coordinate differs from the original by at most
\* 0.5 + 0.5 * 448 / W (x) or 0.5 + 0.5 * 448 / H (y); the inequality is
\* multiplied by 2 * W (2 * H)
C5_RoundTrip ==
    /\ rpc \in {"scaled", "restored"} => Len(scaled_bbox) = Len(bbox)
    /\ rpc = "restored" =>
        /\ Len(restored_bbox) = Len(bbox)
        /\ \A i \in 1..Len(bbox) : \A k \in 1..4 :
            2 * tgt[Axis(k)] * Abs(restored_bbox[i][k] - bbox[i][k])
                <= tgt[Axis(k)] + SrcSize

\* C5 witness: a list of two boxes went to width 29 and back; x = 224 scaled
\* to 15 (224 * 29 / 448 is 14.5) and the round trip did not give the list back
C5_Witness ==
    /\ rpc = "restored"
    /\ Len(bbox) = 2
    /\ tgt[1] = 29
    /\ bbox[1][1] = 224
    /\ scaled_bbox[1][1] = 15
    /\ restored_bbox # bbox

----------------------------------------------------------------------------
(* The vocabularies, the token lists and the image helpers the predictors  *)
(* use.                                                                    *)

\* the decode lengths the predictors ask for
HtmlMaxDecodeLen == 512
BboxMaxDecodeLen == 1024
CellMaxDecodeLen == 200

\* a decode length of the program, cut to MaxDecodeLen so that runs stay bounded
Cap(n) == IF n > MaxDecodeLen THEN MaxDecodeLen ELSE n

\* the most img_to_html calls made one after the other
MaxCalls == 2

\* the most boxes predict_cells is called with
MaxBoxes == 2

ModelNames == {"structure_model", "bbox_model", "cell_model"}

\* the images: their content stands for the pixels, their size is (W, H)
Images == {[pixels |-> p, size |-> <<4, 3>>] : p \in {0, 1, 2}}

\* the boxes predict_cells is called with
CellBoxes == {<<0, 0, 2, 1>>, <<1, 1, 4, 3>>}

\* vocab.token_to_id
token_to_id(tok) ==
    IF tok \in {"[html]", "[bbox]", "[cell]"} THEN 0
    ELSE IF tok = "<eos>" THEN 1
    ELSE 2

\* the token lists of tokens.py
VALID_HTML_TOKEN == {"<eos>", "<td>"}
VALID_BBOX_TOKEN == {"<eos>", "bbox-0"}
INVALID_CELL_TOKEN == {"[html]", "[bbox]", "[cell]"}

\* the row up to its first "<eos>", without the task markers
BeforeEos(row) ==
    LET at == {i \in 1..Len(row) : row[i] = token_to_id("<eos>")}
    IN IF at = {} THEN row
       ELSE SubSeq(row, 1, (CHOOSE i \in at : \A j \in at : i <= j) - 1)
Unmarked(row) == SelectSeq(row, LAMBDA t : t # token_to_id("[html]"))

\* structure_vocab.decode and html_str_to_token_list: the structural tokens
html_str_to_token_list(row) ==
    [i \in 1..Len(Unmarked(BeforeEos(row))) |-> "<td>"]

\* cell_vocab.decode_batch and cell_str_to_token_list: the text of a cell
cell_str_to_token_list(row) ==
    [i \in 1..Len(Unmarked(BeforeEos(row))) |-> "1"]

\* _image_to_tensor(image, size): a batch of one row made from the pixels
image_to_tensor(im, size) == <<im.pixels>>

\* image.crop(bbox)
Crop(im, box) ==
    [pixels |-> (im.pixels + box[1] + box[2]) % 2,
     size |-> <<box[3] - box[1], box[4] - box[2]>>]

\* the binding of a call's positional arguments to parameters without
\* defaults: Python raises TypeError unless there is one argument per parameter
Binds(params, args) == Len(args) = Len(params)

----------------------------------------------------------------------------
(* predict_cells, called with a list of boxes and the image. *)

\* lines 159-173: one crop per box, torch.cat of the crops (which raises
\* RuntimeError on an empty list), and the call of the decoder
PredictCellsCrop ==
    /\ cpc = "call"
    /\ LET crops == [i \in 1..Len(pred_bbox) |->
                        image_to_tensor(Crop(img, pred_bbox[i]), <<112, 448>>)[1]]
       IN IF crops = <<>>
          THEN /\ cpc' = "raised"
               /\ error' = "RuntimeError"
               /\ UNCHANGED dvars
          ELSE /\ cpc' = "decode"
               /\ error' = error
               /\ model' = "cell_model"
               /\ image' = crops
               /\ prefix' = <<token_to_id("[cell]")>>
               /\ max_decode_len' = Cap(CellMaxDecodeLen)
               /\ eos_id' = token_to_id("<eos>")
               /\ token_whitelist' = None
               /\ token_blacklist' = Some({token_to_id(t) : t \in INVALID_CELL_TOKEN})
               /\ dpc' = "call"
               /\ UNCHANGED <<models, context, step>>
    /\ UNCHANGED <<pred_bbox, pred_cell>>
    /\ UNCHANGED <<img, pc, image_tensor, pred_html, ncalls, runs>>
    /\ UNCHANGED <<rvars, fvars>>

\* lines 175-180: the rows become texts, each text is fixed
PredictCellsReturn ==
    /\ cpc = "decode"
    /\ dpc = "returned"
    /\ pred_cell' = [i \in 1..Len(context) |->
                        re_sub(cell_str_to_token_list(context[i]))]
    /\ cpc' = "returned"
    /\ dpc' = "idle"
    /\ UNCHANGED <<models, model, image, prefix, max_decode_len, eos_id,
                   token_whitelist, token_blacklist, context, step>>
    /\ UNCHANGED <<pred_bbox, pvars, rvars, fvars>>

\* the module-level models as loaded: the one the calls use has any of the
\* weights and is in either mode
InitModels(used) ==
    models \in {[m \in ModelNames |->
                    IF m = used THEN r ELSE [training |-> TRUE, weights |-> 0]] :
                r \in [training : BOOLEAN, weights : Weights]}

InitCells ==
    /\ InitModels("cell_model")
    /\ IdleDecode
    /\ img \in Images
    /\ IdlePipeline
    /\ cpc = "call"
    /\ pred_bbox \in UNION {[1..n -> CellBoxes] : n \in 0..MaxBoxes}
    /\ pred_cell = <<>>
    /\ IdleRescale
    /\ IdleFix

NextCells ==
    \/ PredictCellsCrop
    \/ DecodeEnter
    \/ DecodeStep
    \/ DecodeReturn
    \/ PredictCellsReturn

SpecCells == InitCells /\ [][NextCells]_vars

\* C9: predict_cells returns one cell text per box, for an empty list of
\* boxes too: it does not end in an error, and the list it returns is as long
\* as pred_bbox
C9_OneTextPerBox ==
    /\ cpc # "raised"
    /\ cpc = "returned" => Len(pred_cell) = Len(pred_bbox)

----------------------------------------------------------------------------
(* img_to_html, called again and again with the same image. *)

\* def predict_bboxes(image_tensor, image_size), and its call at line 186
PredictBboxesParams == <<"image_tensor", "image_size">>
PredictBboxesArgs == <<"image_tensor">>

\* what a call did: the tokens of its structure decoding, pred_html, and how
\* it ended
Run(outcome) == [tokens |-> context, pred_html |-> pred_html, outcome |-> outcome]

\* img_to_html(image) is called
ImgToHtmlCall ==
    /\ pc \in {"idle", "raised"}
    /\ ncalls < MaxCalls
    /\ ncalls' = ncalls + 1
    /\ pc' = "line184"
    /\ error' = "none"
    /\ image_tensor' = <<>>
    /\ pred_html' = <<>>
    /\ UNCHANGED <<img, runs, dvars, cvars, rvars, fvars>>

\* line 184: image_tensor = _image_to_tensor(image, size=(448, 448))
Preprocess ==
    /\ pc = "line184"
    /\ image_tensor' = image_to_tensor(img, <<SrcSize, SrcSize>>)
    /\ pc' = "line185"
    /\ UNCHANGED <<img, error, pred_html, ncalls, runs, dvars, cvars, rvars, fvars>>

\* lines 185, 119-127: predict_html calls the decoder
PredictHtmlCall ==
    /\ pc = "line185"
    /\ dpc = "idle"
    /\ model' = "structure_model"
    /\ image' = image_tensor
    /\ prefix' = <<token_to_id("[html]")>>
    /\ max_decode_len' = Cap(HtmlMaxDecodeLen)
    /\ eos_id' = token_to_id("<eos>")
    /\ token_whitelist' = Some({token_to_id(t) : t \in VALID_HTML_TOKEN})
    /\ token_blacklist' = None
    /\ dpc' = "call"
    /\ pc' = "predict_html"
    /\ UNCHANGED <<models, context, step>>
    /\ UNCHANGED <<img, error, image_tensor, pred_html, ncalls, runs>>
    /\ UNCHANGED <<cvars, rvars, fvars>>

\* lines 129-133: the first row becomes the list of structural tokens
PredictHtmlReturn ==
    /\ pc = "predict_html"
    /\ dpc = "returned"
    /\ pred_html' = html_str_to_token_list(context[1])
    /\ dpc' = "idle"
    /\ pc' = "line186"
    /\ UNCHANGED <<models, model, image, prefix, max_decode_len, eos_id,
                   token_whitelist, token_blacklist, context, step>>
    /\ UNCHANGED <<img, error, image_tensor, ncalls, runs>>
    /\ UNCHANGED <<cvars, rvars, fvars>>

\* line 186: pred_bbox = predict_bboxes(image_tensor). The call gives one
\* argument to a function of two parameters and raises TypeError; lines
\* 187-192 (predict_cells, the assembly, the return) are never reached
PredictBboxesCall ==
    /\ pc = "line186"
    /\ IF Binds(PredictBboxesParams, PredictBboxesArgs)
       THEN /\ pc' = "predict_bboxes"
            /\ model' = "bbox_model"
            /\ image' = image_tensor
            /\ prefix' = <<token_to_id("[bbox]")>>
            /\ max_decode_len' = Cap(BboxMaxDecodeLen)
            /\ eos_id' = token_to_id("<eos>")
            /\ token_whitelist' = Some({token_to_id(t) : t \in VALID_BBOX_TOKEN})
            /\ token_blacklist' = None
            /\ dpc' = "call"
            /\ UNCHANGED <<models, context, step, error, runs>>
       ELSE /\ pc' = "raised"
            /\ error' = "TypeError"
            /\ runs' = Append(runs, Run("TypeError"))
            /\ UNCHANGED dvars
    /\ UNCHANGED <<img, image_tensor, pred_html, ncalls>>
    /\ UNCHANGED <<cvars, rvars, fvars>>

InitRun ==
    /\ InitModels("structure_model")
    /\ IdleDecode
    /\ img \in Images
    /\ IdlePipeline
    /\ IdleCells
    /\ IdleRescale
    /\ IdleFix

NextRun ==
    \/ ImgToHtmlCall
    \/ Preprocess
    \/ PredictHtmlCall
    \/ DecodeEnter
    \/ DecodeStep
    \/ DecodeReturn
    \/ PredictHtmlReturn
    \/ PredictBboxesCall

SpecRun == InitRun /\ [][NextRun]_vars

(* Properties of img_to_html. *)

IsPrefix(a, b) == Len(a) <= Len(b) /\ SubSeq(b, 1, Len(a)) = a

\* C1: a call of img_to_html completes by returning an HTML string, not by
\* raising an error
C1_ReturnsHtml ==
    /\ pc # "raised"
    /\ error = "none"

====
